---------------------------- MODULE Spec2Model ----------------------------
(*
  Model of the markdown-to-document converter of src/app.py:
    create_word_document   (the line scan, lines 51-141)
    create_word_table      (the table builder, lines 143-192)
    parse_inline_formatting, add_formatted_text (lines 194-238)

  A Python str is a sequence of one-character strings; indices and cursors
  keep the code's 0-based convention, so text[a:b] is SubSeq(text, a+1, b).
*)
EXTENDS Integers, Sequences, FiniteSets, TLC

(***************************************************************************)
(* Bounds of the model                                                     *)
(***************************************************************************)
\* longest text handed to parse_inline_formatting by SpecInline
MaxTextLen == 7
\* most lines of a document drawn from LinePool by Spec
MaxLines == 3
\* longest single line enumerated character by character by SpecLine
MaxLineLen == 4
\* most table lines handed to create_word_table by SpecTable
MaxTableLines == 3

(***************************************************************************)
(* Python str operations used by the code                                  *)
(***************************************************************************)
\* all strings over the characters cs of length at most n
StringsUpTo(cs, n) == UNION {[1..k -> cs] : k \in 0..n}

\* the only whitespace character of the model's alphabets
IsSpace(c) == c = " "

RECURSIVE lstrip(_)
lstrip(s) == IF s # <<>> /\ IsSpace(Head(s)) THEN lstrip(Tail(s)) ELSE s

RECURSIVE rstrip(_)
rstrip(s) ==
  IF s # <<>> /\ IsSpace(s[Len(s)]) THEN rstrip(SubSeq(s, 1, Len(s) - 1)) ELSE s

\* str.strip()
strip(s) == rstrip(lstrip(s))

\* str.startswith(p)
startswith(s, p) == Len(s) >= Len(p) /\ SubSeq(s, 1, Len(p)) = p

\* s[a:]
SliceFrom(s, a) == SubSeq(s, a + 1, Len(s))

\* s[a:b]
Slice(s, a, b) == SubSeq(s, a + 1, b)

\* c in s, for a one-character c
CharIn(c, s) == \E k \in 1..Len(s) : s[k] = c

\* str.find(sub, start): the lowest 0-based index >= start where sub occurs, or -1
find(s, sub, start) ==
  LET hits == {p \in start..(Len(s) - Len(sub)) : Slice(s, p, p + Len(sub)) = sub}
  IN IF hits = {} THEN -1 ELSE CHOOSE p \in hits : \A q \in hits : p <= q

\* str.split(sep) for a one-character sep: always at least one field
RECURSIVE split(_, _)
split(s, sep) ==
  LET p == find(s, <<sep>>, 0)
  IN IF p = -1 THEN <<s>>
     ELSE <<Slice(s, 0, p)>> \o split(SliceFrom(s, p + 1), sep)

\* str.split(sep, 1)[1] when sep occurs in s: what follows the first sep
AfterFirst(s, sep) == SliceFrom(s, find(s, <<sep>>, 0) + 1)

\* str.replace(old, ''): every non-overlapping occurrence of old, leftmost first
RECURSIVE replace(_, _)
replace(s, old) ==
  LET p == find(s, old, 0)
  IN IF p = -1 THEN s
     ELSE Slice(s, 0, p) \o replace(SliceFrom(s, p + Len(old)), old)

\* '\n'.join(ls)
RECURSIVE JoinLines(_)
JoinLines(ls) ==
  IF ls = <<>> THEN <<>>
  ELSE IF Len(ls) = 1 THEN ls[1]
  ELSE ls[1] \o <<"\n">> \o JoinLines(Tail(ls))

(***************************************************************************)
(* parse_inline_formatting and add_formatted_text                          *)
(***************************************************************************)
BOLD == <<"*", "*">>

\* ParseFrom with the cursor left on the second '*' of a closing marker
RECURSIVE ParseFromShortSkip(_, _, _)
ParseFromShortSkip(text, current_pos, segments) ==
  IF ~(current_pos < Len(text)) THEN segments
  ELSE
    LET bold_start == find(text, BOLD, current_pos)
    IN IF bold_start = -1
       THEN Append(segments, <<"normal", SliceFrom(text, current_pos)>>)
       ELSE
         LET segs1 == IF bold_start > current_pos
                      THEN Append(segments,
                                  <<"normal", Slice(text, current_pos, bold_start)>>)
                      ELSE segments
             bold_end == find(text, BOLD, bold_start + 2)
         IN IF bold_end = -1
            THEN Append(segs1, <<"normal", SliceFrom(text, bold_start)>>)
            ELSE ParseFromShortSkip(text, bold_end + 1,
                           Append(segs1,
                                  <<"bold", Slice(text, bold_start + 2, bold_end)>>))

\* ParseFrom with an unmatched opening marker left out of the last segment
RECURSIVE ParseFromDropsMarker(_, _, _)
ParseFromDropsMarker(text, current_pos, segments) ==
  IF ~(current_pos < Len(text)) THEN segments
  ELSE
    LET bold_start == find(text, BOLD, current_pos)
    IN IF bold_start = -1
       THEN Append(segments, <<"normal", SliceFrom(text, current_pos)>>)
       ELSE
         LET segs1 == IF bold_start > current_pos
                      THEN Append(segments,
                                  <<"normal", Slice(text, current_pos, bold_start)>>)
                      ELSE segments
             bold_end == find(text, BOLD, bold_start + 2)
         IN IF bold_end = -1
            THEN Append(segs1, <<"normal", SliceFrom(text, bold_start + 2)>>)
            ELSE ParseFromDropsMarker(text, bold_end + 2,
                           Append(segs1,
                                  <<"bold", Slice(text, bold_start + 2, bold_end)>>))

\* the while loop of parse_inline_formatting from cursor current_pos on,
\* with the segments emitted so far
RECURSIVE ParseFrom(_, _, _)
ParseFrom(text, current_pos, segments) ==
  IF ~(current_pos < Len(text)) THEN segments
  ELSE
    LET bold_start == find(text, BOLD, current_pos)
    IN IF bold_start = -1
       THEN Append(segments, <<"normal", SliceFrom(text, current_pos)>>)
       ELSE
         LET segs1 == IF bold_start > current_pos
                      THEN Append(segments,
                                  <<"normal", Slice(text, current_pos, bold_start)>>)
                      ELSE segments
             bold_end == find(text, BOLD, bold_start + 2)
         IN IF bold_end = -1
            THEN Append(segs1, <<"normal", SliceFrom(text, bold_start)>>)
            ELSE ParseFrom(text, bold_end + 2,
                           Append(segs1,
                                  <<"bold", Slice(text, bold_start + 2, bold_end)>>))

parse_inline_formatting(text) == ParseFrom(text, 0, <<>>)

\* the runs add_formatted_text adds to a paragraph for a list of segments
add_formatted_text(formatted_segments) ==
  [k \in 1..Len(formatted_segments) |->
     [text |-> formatted_segments[k][2], bold |-> formatted_segments[k][1] = "bold"]]


(***************************************************************************)
(* The document: the blocks python-docx holds after each call              *)
(***************************************************************************)
\* doc.add_heading(text, level)
Heading(level, txt) ==
  [kind |-> "heading", level |-> level, style |-> "Heading", text |-> txt,
   runs |-> <<>>, rows |-> <<>>]

\* doc.add_paragraph(style=...) followed by add_formatted_text(p, segments)
Paragraph(style, runs) ==
  [kind |-> "paragraph", level |-> -1, style |-> style, text |-> <<>>,
   runs |-> runs, rows |-> <<>>]

\* doc.add_table(rows, cols) once its cells are filled
Table(rows) ==
  [kind |-> "table", level |-> -1, style |-> "Table Grid", text |-> <<>>,
   runs |-> <<>>, rows |-> rows]

\* doc.add_paragraph(""): a paragraph with no run
EmptyParagraph == Paragraph("Normal", <<>>)

\* what create_word_document adds before it scans the text
Preamble ==
  << Heading(0, <<"Extracted Text Document">>),
     Paragraph("Normal", <<[text |-> <<"Generated on: ", "now">>, bold |-> FALSE]>>),
     EmptyParagraph,
     Heading(1, <<"Extracted Content">>) >>

(***************************************************************************)
(* create_word_table                                                       *)
(***************************************************************************)
\* [cell.strip() for cell in line.split('|')[1:-1]]
Cells(line) ==
  LET fields == split(line, "|")
      inner  == SubSeq(fields, 2, Len(fields) - 1)
  IN [k \in 1..Len(inner) |-> strip(inner[k])]

\* TableData without the test that drops a line with no cell
TableDataKeepsEmpty(tlines) == [k \in 1..Len(tlines) |-> Cells(tlines[k])]

\* table_data: the rows of the lines that yield at least one cell
RECURSIVE TableData(_)
TableData(tlines) ==
  IF tlines = <<>> THEN <<>>
  ELSE LET cells == Cells(Head(tlines))
       IN (IF cells # <<>> THEN <<cells>> ELSE <<>>) \o TableData(Tail(tlines))

\* the runs of the cell at (row_idx, col_idx), both 1-based here: a cell the
\* fill loop never writes keeps the empty paragraph add_table gave it
CellRuns(table_data, row_idx, col_idx) ==
  IF col_idx <= Len(table_data[row_idx])
  THEN LET runs == add_formatted_text(
                     parse_inline_formatting(table_data[row_idx][col_idx]))
       IN IF row_idx = 1
          THEN [k \in 1..Len(runs) |-> [runs[k] EXCEPT !.bold = TRUE]]
          ELSE runs
  ELSE <<>>

\* create_word_table with every row as wide as its own line
create_word_table_ragged(d, tlines) ==
  IF TableData(tlines) = <<>> THEN d
  ELSE d \o << Table([r \in 1..Len(TableData(tlines)) |->
                        [c \in 1..Len(TableData(tlines)[r]) |->
                           CellRuns(TableData(tlines), r, c)]]),
               EmptyParagraph >>

\* the document after create_word_table(doc, table_lines)
create_word_table(d, tlines) ==
  IF tlines = <<>> THEN d
  ELSE
    LET table_data == TableData(tlines)
    IN IF table_data = <<>> THEN d
       ELSE
         LET rows == Len(table_data)
             cols == Len(table_data[1])
         IN IF rows = 0 \/ cols = 0 THEN d
            ELSE d \o << Table([r \in 1..rows |->
                                  [c \in 1..cols |-> CellRuns(table_data, r, c)]]),
                         EmptyParagraph >>

(***************************************************************************)
(* State                                                                   *)
(***************************************************************************)
VARIABLES
  pc,              \* position in the function being run
  extracted_text,  \* argument of create_word_document
  lines,           \* extracted_text.split('\n')
  i,               \* cursor of the outer loop
  j,               \* cursor of the table-run loop
  table_lines,     \* the lines collected for create_word_table
  doc,             \* the blocks of the Document, preamble first
  origin,          \* history: for each block of doc, the cursor i it was added at
  text,            \* argument of parse_inline_formatting (SpecInline)
  segments         \* its result (SpecInline)

vars == <<pc, extracted_text, lines, i, j, table_lines, doc, origin, text, segments>>

\* lines[i].strip() of the code, for a 0-based index k
Line(k) == strip(lines[k + 1])

\* all(c in '|:-= ' for c in table_line)
IsSeparator(table_line) ==
  \A k \in 1..Len(table_line) : table_line[k] \in {"|", ":", "-", "=", " "}

\* line.startswith('|') and '|' in line[1:]
IsTableStart(line) == startswith(line, <<"|">>) /\ CharIn("|", SliceFrom(line, 1))

\* IsNumbered with '0.' accepted too
IsNumberedAnyDigit(line) ==
  \E d \in {"0", "1", "2", "3", "4", "5", "6", "7", "8", "9"} : startswith(line, <<d, ".">>)

\* line.startswith(('1.', ..., '9.'))
IsNumbered(line) ==
  \E d \in {"1", "2", "3", "4", "5", "6", "7", "8", "9"} : startswith(line, <<d, ".">>)

\* line.startswith('*') or line.startswith('-')
IsBullet(line) == startswith(line, <<"*">>) \/ startswith(line, <<"-">>)

\* doc grown by blocks added while the cursor is at i
Grow(newdoc) ==
  /\ doc' = newdoc
  /\ origin' = origin \o [k \in 1..(Len(newdoc) - Len(doc)) |-> i]

(***************************************************************************)
(* create_word_document                                                    *)
(***************************************************************************)
\* lines 51-68: the call with one of the texts, the preamble, the split and
\* the cursor
Start(texts) ==
  /\ pc = "start"
  /\ extracted_text' \in texts
  /\ doc' = Preamble
  /\ origin' = [k \in 1..Len(Preamble) |-> -1]
  /\ lines' = split(extracted_text', "\n")
  /\ i' = 0
  /\ pc' = "loop"
  /\ UNCHANGED <<j, table_lines, text, segments>>

\* SkipBlank with an empty paragraph added for the blank line
SkipBlankEmits ==
  /\ pc = "loop" /\ i < Len(lines)
  /\ Line(i) = <<>>
  /\ Grow(Append(doc, EmptyParagraph))
  /\ i' = i + 1
  /\ UNCHANGED <<pc, extracted_text, lines, j, table_lines, text, segments>>

\* lines 72-74
SkipBlank ==
  /\ pc = "loop" /\ i < Len(lines)
  /\ Line(i) = <<>>
  /\ i' = i + 1
  /\ UNCHANGED <<pc, extracted_text, lines, j, table_lines, doc, origin, text, segments>>

\* lines 77-80
TableStart ==
  /\ pc = "loop" /\ i < Len(lines)
  /\ Line(i) # <<>> /\ IsTableStart(Line(i))
  /\ table_lines' = <<>>
  /\ j' = i
  /\ pc' = "collect"
  /\ UNCHANGED <<extracted_text, lines, i, doc, origin, text, segments>>

\* TableCollect with separator lines kept
TableCollectKeepsAll ==
  /\ pc = "collect"
  /\ j < Len(lines) /\ startswith(Line(j), <<"|">>)
  /\ table_lines' = Append(table_lines, Line(j))
  /\ j' = j + 1
  /\ UNCHANGED <<pc, extracted_text, lines, i, doc, origin, text, segments>>

\* lines 83-88: one iteration of the inner loop
TableCollect ==
  /\ pc = "collect"
  /\ j < Len(lines) /\ startswith(Line(j), <<"|">>)
  /\ table_lines' = IF ~IsSeparator(Line(j)) THEN Append(table_lines, Line(j))
                    ELSE table_lines
  /\ j' = j + 1
  /\ UNCHANGED <<pc, extracted_text, lines, i, doc, origin, text, segments>>

\* TableEnd with the cursor i left where the run began
TableEndKeepsCursor ==
  /\ pc = "collect"
  /\ ~(j < Len(lines) /\ startswith(Line(j), <<"|">>))
  /\ Grow(IF table_lines # <<>> THEN create_word_table(doc, table_lines) ELSE doc)
  /\ pc' = "loop"
  /\ UNCHANGED <<extracted_text, lines, i, j, table_lines, text, segments>>

\* lines 90-94: the inner loop is over
TableEnd ==
  /\ pc = "collect"
  /\ ~(j < Len(lines) /\ startswith(Line(j), <<"|">>))
  /\ Grow(IF table_lines # <<>> THEN create_word_table(doc, table_lines) ELSE doc)
  /\ i' = j
  /\ pc' = "loop"
  /\ UNCHANGED <<extracted_text, lines, j, table_lines, text, segments>>

\* a line that is neither blank nor the start of a table reaches line 97
ReachesMarkdown ==
  /\ pc = "loop" /\ i < Len(lines)
  /\ Line(i) # <<>> /\ ~IsTableStart(Line(i))

\* what every branch of lines 97-132 does after adding its block: line 134
Emit(block) ==
  /\ Grow(Append(doc, block))
  /\ i' = i + 1
  /\ UNCHANGED <<pc, extracted_text, lines, j, table_lines, text, segments>>

\* lines 97-100
Heading3 ==
  /\ ReachesMarkdown
  /\ startswith(Line(i), <<"#", "#", "#">>)
  /\ Emit(Heading(3, strip(replace(Line(i), <<"#", "#", "#">>))))

\* lines 102-105
Heading2 ==
  /\ ReachesMarkdown
  /\ ~startswith(Line(i), <<"#", "#", "#">>)
  /\ startswith(Line(i), <<"#", "#">>)
  /\ Emit(Heading(2, strip(replace(Line(i), <<"#", "#">>))))

\* lines 107-110
Heading1 ==
  /\ ReachesMarkdown
  /\ ~startswith(Line(i), <<"#", "#">>)
  /\ startswith(Line(i), <<"#">>)
  /\ Emit(Heading(1, strip(replace(Line(i), <<"#">>))))

\* lines 112-118
Bullet ==
  /\ ReachesMarkdown
  /\ ~startswith(Line(i), <<"#">>)
  /\ IsBullet(Line(i))
  /\ Emit(Paragraph("List Bullet",
                    add_formatted_text(
                      parse_inline_formatting(strip(SliceFrom(Line(i), 1))))))

\* a line that reaches the test of line 120
ReachesNumberedTest ==
  /\ ReachesMarkdown
  /\ ~startswith(Line(i), <<"#">>)
  /\ ~IsBullet(Line(i))

\* lines 120-125
Numbered ==
  /\ ReachesNumberedTest
  /\ IsNumbered(Line(i))
  /\ Emit(Paragraph("List Number",
                    add_formatted_text(
                      parse_inline_formatting(
                        IF CharIn(".", Line(i)) THEN strip(AfterFirst(Line(i), "."))
                        ELSE Line(i)))))

\* RegularParagraph with the paragraph left out
RegularParagraphDropped ==
  /\ ReachesNumberedTest
  /\ ~IsNumbered(Line(i))
  /\ i' = i + 1
  /\ UNCHANGED <<pc, extracted_text, lines, j, table_lines, doc, origin, text, segments>>

\* lines 127-132
RegularParagraph ==
  /\ ReachesNumberedTest
  /\ ~IsNumbered(Line(i))
  /\ Emit(Paragraph("Normal", add_formatted_text(parse_inline_formatting(Line(i)))))

\* lines 69, 136-141: the loop is over and the document is saved
Save ==
  /\ pc = "loop" /\ ~(i < Len(lines))
  /\ pc' = "done"
  /\ UNCHANGED <<extracted_text, lines, i, j, table_lines, doc, origin, text, segments>>

\* one iteration of the loops of create_word_document, or its end
Scan ==
  \/ SkipBlank
  \/ TableStart
  \/ TableCollect
  \/ TableEnd
  \/ Heading3
  \/ Heading2
  \/ Heading1
  \/ Bullet
  \/ Numbered
  \/ RegularParagraph
  \/ Save

(***************************************************************************)
(* Inputs                                                                  *)
(***************************************************************************)
\* lines of every kind the scan distinguishes, for documents of several lines
LinePool ==
  { <<>>,
    <<" ">>,
    <<"|", "a", "|", "b", "|">>,
    <<"|", "-", "|">>,
    <<"|", "a", "|">>,
    <<"|", "a">>,
    <<"#", " ", "a">>,
    <<"#", "#", "a">>,
    <<"#", "#", "#", "a", "#">>,
    <<"-", " ", "a">>,
    <<"1", ".", " ", "a">>,
    <<"1", "0", ".", "a">>,
    <<"a">> }

\* the characters of the single lines SpecLine enumerates
LineChars == {"#", "*", "-", "|", "1", "0", ".", " ", "a"}

\* the lines the specification quotes
ExampleLines ==
  { <<"#", "#", "#", " ", "T", "i", "t", "l", "e">>,
    <<"1", "0", ".", " ", "x">>,
    <<"0", ".", " ", "x">>,
    <<"#", " ", "C", "#", " ", "x">>,
    <<"#", "#", "#", "#", " ", "x">> }

\* documents of up to MaxLines lines of LinePool
DocTexts == {JoinLines(ls) : ls \in StringsUpTo(LinePool, MaxLines)}

\* one-line documents, every line up to MaxLineLen characters of LineChars
LineTexts == StringsUpTo(LineChars, MaxLineLen) \cup ExampleLines

Init ==
  /\ pc = "start"
  /\ extracted_text = <<>>
  /\ lines = <<>>
  /\ i = 0
  /\ j = 0
  /\ table_lines = <<>>
  /\ doc = <<>>
  /\ origin = <<>>
  /\ text = <<>>
  /\ segments = <<>>

Next ==
  \/ Start(DocTexts)
  \/ Scan

Spec == Init /\ [][Next]_vars

NextLine ==
  \/ Start(LineTexts)
  \/ Scan

SpecLine == Init /\ [][NextLine]_vars

(***************************************************************************)
(* parse_inline_formatting on its own                                      *)
(***************************************************************************)
\* one call of parse_inline_formatting(text)
ParseInline ==
  /\ pc = "inline_call"
  /\ segments' = parse_inline_formatting(text)
  /\ pc' = "inline_done"
  /\ UNCHANGED <<extracted_text, lines, i, j, table_lines, doc, origin, text>>

NextInline == ParseInline

InlineChars == {"*", "a", "b", " "}

\* the texts the specification quotes
ExampleTexts ==
  { <<"a", " ", "*", "*", "b", " ", "c">>,
    <<"*", "*", "N", "a", "m", "e", "*", "*", ":", " ", "A", "l", "i", "c", "e">> }

InitInline ==
  /\ pc = "inline_call"
  /\ text \in StringsUpTo(InlineChars, MaxTextLen) \cup ExampleTexts
  /\ segments = <<>>
  /\ extracted_text = <<>>
  /\ lines = <<>>
  /\ i = 0
  /\ j = 0
  /\ table_lines = <<>>
  /\ doc = <<>>
  /\ origin = <<>>

SpecInline == InitInline /\ [][NextInline]_vars

(***************************************************************************)
(* create_word_table on its own                                            *)
(***************************************************************************)
\* one call of create_word_table(doc, table_lines)
BuildTable ==
  /\ pc = "table_call"
  /\ doc' = create_word_table(doc, table_lines)
  /\ pc' = "table_done"
  /\ UNCHANGED <<extracted_text, lines, i, j, table_lines, origin, text, segments>>

NextTable == BuildTable

\* lines the scan can collect: trimmed, starting with '|', no separator line
TableLinePool ==
  { <<"|", "a", "|">>,
    <<"|", "a", "|", "b", "|">>,
    <<"|", "a", "|", "b", "|", "c", "|">>,
    <<"|", "a">>,
    <<"|", "a", "|", "b">>,
    <<"|", " ", "*", "*", "a", "*", "*", " ", "|", "|">>,
    <<"|", "|", "b", "|">> }

InitTable ==
  /\ pc = "table_call"
  /\ table_lines \in StringsUpTo(TableLinePool, MaxTableLines)
  /\ doc = Preamble
  /\ origin = [k \in 1..Len(Preamble) |-> -1]
  /\ extracted_text = <<>>
  /\ lines = <<>>
  /\ i = 0
  /\ j = 0
  /\ text = <<>>
  /\ segments = <<>>

SpecTable == InitTable /\ [][NextTable]_vars

(***************************************************************************)
(* Claims about parse_inline_formatting (SpecInline)                       *)
(***************************************************************************)
\* the 0-based positions of the '**' markers of t, read left to right without
\* overlap, shifted by base
RECURSIVE Markers(_, _)
Markers(t, base) ==
  LET p == find(t, BOLD, 0)
  IN IF p = -1 THEN <<>>
     ELSE <<base + p>> \o Markers(SliceFrom(t, p + 2), base + p + 2)

\* every opening marker has a closing marker
Balanced(t) == Len(Markers(t, 0)) % 2 = 0

\* one segment, left out when it is a normal segment without text
Piece(fmt, txt) == IF fmt = "normal" /\ txt = <<>> THEN <<>> ELSE <<<<fmt, txt>>>>

\* the segments of the marker pairs r..n of t: normal text before the pair,
\* then the bold span between its two markers
RECURSIVE PairSegments(_, _, _, _)
PairSegments(t, m, r, n) ==
  IF r > n THEN <<>>
  ELSE LET prev == IF r = 1 THEN 0 ELSE m[2 * r - 2] + 2
       IN Piece("normal", Slice(t, prev, m[2 * r - 1]))
          \o Piece("bold", Slice(t, m[2 * r - 1] + 2, m[2 * r]))
          \o PairSegments(t, m, r + 1, n)

\* the segments of a text whose markers are balanced
BalancedSegments(t) ==
  LET m == Markers(t, 0)
      n == Len(m) \div 2
      rest == IF n = 0 THEN 0 ELSE m[2 * n] + 2
  IN PairSegments(t, m, 1, n) \o Piece("normal", SliceFrom(t, rest))

\* the text fields of the segments, concatenated in order
RECURSIVE ConcatText(_)
ConcatText(segs) ==
  IF segs = <<>> THEN <<>> ELSE Head(segs)[2] \o ConcatText(Tail(segs))

\* C7: for a text whose '**' markers are balanced, the text fields of the
\* segments concatenated in order are the text with the markers removed, and
\* the segments are, in the order of the text, the normal text outside the
\* marker pairs and the bold spans between them.
C7_BalancedRoundTrip ==
  (pc = "inline_done" /\ Balanced(text)) =>
     /\ ConcatText(segments) = replace(text, BOLD)
     /\ segments = BalancedSegments(text)

\* a text with normal text, a bold span and normal text again has been parsed
C7_Witness ==
  /\ pc = "inline_done"
  /\ Balanced(text)
  /\ Len(segments) = 3
  /\ segments[1][1] = "normal" /\ segments[2][1] = "bold" /\ segments[3][1] = "normal"
  /\ segments[2][2] # <<>>

\* C8: when an opening '**' has no closing '**', the last segment is the normal
\* segment holding the rest of the text from that marker on, markers included,
\* and the segments before it are those of the text before that marker;
\* 'a **b c' gives [normal 'a ', normal '**b c'].
C8_UnmatchedVerbatim ==
  (pc = "inline_done" /\ ~Balanced(text)) =>
     LET m == Markers(text, 0)
         open == m[Len(m)]
     IN /\ segments # <<>>
        /\ segments[Len(segments)] = <<"normal", SliceFrom(text, open)>>
        /\ SubSeq(segments, 1, Len(segments) - 1) = BalancedSegments(Slice(text, 0, open))
        /\ ConcatText(segments) =
             replace(Slice(text, 0, open), BOLD) \o SliceFrom(text, open)
        /\ (text = <<"a", " ", "*", "*", "b", " ", "c">> =>
              segments = << <<"normal", <<"a", " ">>>>,
                            <<"normal", <<"*", "*", "b", " ", "c">>>> >>)

\* 'a **b c' has been parsed
C8_Witness ==
  /\ pc = "inline_done"
  /\ text = <<"a", " ", "*", "*", "b", " ", "c">>
  /\ ~Balanced(text)
  /\ Len(segments) = 2

(***************************************************************************)
(* Claims about the scan of create_word_document                           *)
(***************************************************************************)
\* the blocks added after the preamble, and the cursor each was added at
ContentBlocks == SubSeq(doc, Len(Preamble) + 1, Len(doc))
ContentOrigin == SubSeq(origin, Len(Preamble) + 1, Len(origin))

\* the number of lines of s that are not blank
NonBlankLines(s) ==
  LET ls == split(s, "\n")
  IN Cardinality({k \in 1..Len(ls) : strip(ls[k]) # <<>>})

\* the number of tables among the content blocks
TableCount == Cardinality({p \in 1..Len(ContentBlocks) : ContentBlocks[p].kind = "table"})

\* the trimmed line begins with '|'
BeginsWithPipe(line) == line # <<>> /\ line[1] = "|"

\* the trimmed line begins with '|' and has another '|' after position 0
OpensTable(line) == BeginsWithPipe(line) /\ \E k \in 2..Len(line) : line[k] = "|"

\* line k (0-based) belongs to a table run: it begins with '|' and either opens
\* a table itself or follows a line of a run
RECURSIVE InRun(_)
InRun(k) ==
  /\ BeginsWithPipe(Line(k))
  /\ OpensTable(Line(k)) \/ (k > 0 /\ InRun(k - 1))

\* line k is the first line of a table run
FirstOfRun(k) == InRun(k) /\ ~(k > 0 /\ InRun(k - 1))

\* the first index at or after s whose line does not begin with '|'
RunEnd(s) ==
  CHOOSE e \in s..Len(lines) :
    /\ e = Len(lines) \/ ~BeginsWithPipe(Line(e))
    /\ \A k \in s..(e - 1) : BeginsWithPipe(Line(k))

\* the line has a character other than '|', ':', '-', '=' and space
NotSeparator(line) == \E k \in 1..Len(line) : line[k] \notin {"|", ":", "-", "=", " "}

\* the trimmed lines s..e-1, separator lines left out
KeptLines(s, e) == SelectSeq([k \in 1..(e - s) |-> Line(s + k - 1)], NotSeparator)

\* C1 as stated: the content blocks are at most as many as the non-blank lines.
C1_BlocksAtMostNonBlankLines ==
  pc = "done" => Len(ContentBlocks) <= NonBlankLines(extracted_text)

\* C1 amended: the content blocks are at most as many as the non-blank lines
\* plus the tables, each table being followed by one empty spacing paragraph.
C1_BlocksAtMostLinesPlusTables ==
  pc \in {"loop", "collect", "done"} =>
     /\ Len(ContentBlocks) <= NonBlankLines(extracted_text) + TableCount
     /\ \A p \in 1..Len(ContentBlocks) :
          ContentBlocks[p].kind = "table" =>
             p < Len(ContentBlocks) /\ ContentBlocks[p + 1] = EmptyParagraph

\* a document whose table makes it hold more blocks than it has non-blank lines
C1_Witness ==
  /\ pc = "done"
  /\ TableCount >= 1
  /\ Len(ContentBlocks) > NonBlankLines(extracted_text)

\* what is left of the scan: the lines from the cursor i on, then the position
\* in the iteration, then the lines from the cursor j on
Rank ==
  LET n == Len(lines) + 1
  IN (Len(lines) - i) * 3 * n
     + (IF pc = "loop" THEN 2 * n ELSE IF pc = "collect" THEN n + (Len(lines) - j) ELSE 0)

\* C2: the scan terminates; every iteration of the outer loop moves the cursor
\* i forward, by one for a blank or non-table line and by at least one for a
\* table run whose cursor j starts at i on a line beginning with '|', neither
\* cursor passes the number of lines, and every step of the scan lowers what
\* is left of it, which is never negative.
C2_CursorAdvances ==
  [][ /\ (pc = "loop" /\ pc' = "loop") => i' = i + 1
      /\ (pc = "loop" /\ pc' = "collect") =>
            i' = i /\ j' = i /\ BeginsWithPipe(Line(i))
      /\ (pc = "collect" /\ pc' = "collect") => i' = i /\ j' = j + 1
      /\ (pc = "collect" /\ pc' = "loop") => i' = j /\ i' >= i + 1
      /\ (pc = "loop" /\ pc' = "done") => i' = i /\ i = Len(lines)
      /\ i' <= Len(lines') /\ j' <= Len(lines')
      /\ pc # "start" => (Rank' < Rank /\ Rank' >= 0)
  ]_vars

\* a scan that went over a table run of two lines and one more line has ended
C2_Witness ==
  /\ pc = "done"
  /\ i = Len(lines) /\ Len(lines) >= 3
  /\ j = 2 /\ BeginsWithPipe(Line(0)) /\ BeginsWithPipe(Line(1))

\* every scanned non-blank line outside a table run has exactly one block, and
\* every block comes from such a line or from the first line of a table run
OneBlockPerLine ==
  /\ \A k \in 0..(i - 1) :
       (Line(k) # <<>> /\ ~InRun(k)) =>
          Cardinality({p \in 1..Len(ContentOrigin) : ContentOrigin[p] = k}) = 1
  /\ \A p \in 1..Len(ContentOrigin) :
       LET k == ContentOrigin[p]
       IN /\ k \in 0..(Len(lines) - 1)
          /\ Line(k) # <<>>
          /\ InRun(k) => FirstOfRun(k)
          /\ ContentBlocks[p].kind = "table" => FirstOfRun(k)

\* C3 as stated: of any two blocks the first comes from a line of smaller index.
C3_StrictScanOrder ==
  pc \in {"loop", "collect", "done"} =>
     /\ \A p, q \in 1..Len(ContentOrigin) : p < q => ContentOrigin[p] < ContentOrigin[q]
     /\ OneBlockPerLine

\* C3 amended: of any two blocks the first comes from a line of smaller index,
\* except that a table is directly followed by the empty spacing paragraph of
\* the same run; every non-blank line outside a table run gives exactly one
\* block and a table stands at the position of the first line of its run.
C3_ScanOrder ==
  pc \in {"loop", "collect", "done"} =>
     /\ \A p, q \in 1..Len(ContentOrigin) :
          p < q =>
            \/ ContentOrigin[p] < ContentOrigin[q]
            \/ /\ q = p + 1
               /\ ContentOrigin[p] = ContentOrigin[q]
               /\ ContentBlocks[p].kind = "table"
               /\ ContentBlocks[q] = EmptyParagraph
     /\ OneBlockPerLine

\* a table run of two lines, then a paragraph
C3_Witness ==
  /\ pc = "done"
  /\ Len(ContentBlocks) = 3
  /\ ContentBlocks[1].kind = "table" /\ ContentOrigin[1] = 0
  /\ ContentBlocks[2] = EmptyParagraph /\ ContentOrigin[2] = 0
  /\ InRun(1)
  /\ ContentBlocks[3].kind = "paragraph" /\ ContentOrigin[3] = 2

\* C4: a line that begins with '|' and has another '|' opens a table run; the
\* run is the longest stretch of lines from the cursor on that begin with '|',
\* the table builder gets exactly its lines that are not separator lines, in
\* order, the scan resumes at the first line after the run, and the run adds
\* no block other than the table and its spacing paragraph.
C4_TableRun ==
  [][ /\ (pc = "loop" /\ i < Len(lines) /\ OpensTable(Line(i))) => pc' = "collect"
      /\ (pc = "collect" /\ pc' = "loop") =>
            /\ i' = RunEnd(i)
            /\ table_lines = KeptLines(i, RunEnd(i))
            /\ doc' = create_word_table(doc, KeptLines(i, RunEnd(i)))
            /\ \A p \in (Len(doc) + 1)..Len(doc') :
                 doc'[p].kind = "table" \/ doc'[p] = EmptyParagraph
  ]_vars

\* a run of three lines, one of them a separator line, has just been consumed
C4_Witness ==
  /\ pc = "loop"
  /\ i = j /\ j >= 3
  /\ Len(table_lines) = 2
  /\ \E k \in 0..(i - 1) : BeginsWithPipe(Line(k)) /\ ~NotSeparator(Line(k))
  /\ doc[Len(doc) - 1].kind = "table"

\* the number of '|' in the line: splitting on '|' gives one more field
PipeCount(line) == Cardinality({k \in 1..Len(line) : line[k] = "|"})

\* the lines that keep at least one field once the first and last are dropped
RowLines(tlines) == SelectSeq(tlines, LAMBDA l : PipeCount(l) >= 2)

\* C9: a line that yields no cell gives no row, and a table run none of whose
\* lines yields a row adds nothing to the document.
C9_EmptyRowsDropped ==
  [][ (pc = "collect" /\ pc' = "loop") =>
        IF RowLines(table_lines) = <<>>
        THEN doc' = doc
        ELSE /\ Len(doc') = Len(doc) + 2
             /\ doc'[Len(doc) + 1].kind = "table"
             /\ Len(doc'[Len(doc) + 1].rows) = Len(RowLines(table_lines))
  ]_vars

\* a run whose only kept line yields no cell has ended and added nothing
C9_Witness ==
  /\ pc = "done"
  /\ table_lines # <<>>
  /\ RowLines(table_lines) = <<>>
  /\ ContentBlocks = <<>>

(***************************************************************************)
(* Claims about one line (SpecLine)                                        *)
(***************************************************************************)
\* the line without its leading '#' characters
RECURSIVE DropLeadingHashes(_)
DropLeadingHashes(line) ==
  IF line # <<>> /\ Head(line) = "#" THEN DropLeadingHashes(Tail(line)) ELSE line

\* the level of the heading a line beginning with '#' gives
HeadingLevel(line) ==
  IF Len(line) >= 3 /\ line[1] = "#" /\ line[2] = "#" /\ line[3] = "#" THEN 3
  ELSE IF Len(line) >= 2 /\ line[1] = "#" /\ line[2] = "#" THEN 2
  ELSE 1

\* C6: a trimmed line beginning with '#' gives a heading of level 3, 2 or 1 by
\* its first characters, whose text is the line without its leading '#'
\* characters and surrounding whitespace, every later '#' kept.
C6_HeadingLevelAndText ==
  [][ (pc = "loop" /\ i < Len(lines) /\ Line(i) # <<>> /\ Line(i)[1] = "#") =>
        doc' = Append(doc, Heading(HeadingLevel(Line(i)),
                                   strip(DropLeadingHashes(Line(i)))))
  ]_vars

\* the digits that open a numbered item
ItemDigits == {"1", "2", "3", "4", "5", "6", "7", "8", "9"}

\* the line is neither blank, nor the start of a table, nor a heading, nor a
\* bullet: it reaches the numbered-list test
AtNumberedTest(line) ==
  /\ line # <<>>
  /\ ~OpensTable(line)
  /\ line[1] \notin {"#", "*", "-"}

\* C10: a line that reaches the numbered-list test is a numbered item exactly
\* when its first character is a digit 1 to 9 and its second is '.', its text
\* being what follows that '.', trimmed; any other line is a paragraph holding
\* the full trimmed line.
C10_NumberedItem ==
  [][ (pc = "loop" /\ i < Len(lines) /\ AtNumberedTest(Line(i))) =>
        LET line == Line(i)
        IN IF Len(line) >= 2 /\ line[1] \in ItemDigits /\ line[2] = "."
           THEN doc' = Append(doc, Paragraph("List Number",
                          add_formatted_text(
                            parse_inline_formatting(strip(SliceFrom(line, 2))))))
           ELSE doc' = Append(doc, Paragraph("Normal",
                          add_formatted_text(parse_inline_formatting(line))))
  ]_vars

\* '10. x' has been scanned and is a paragraph holding the whole line
C10_Witness ==
  /\ pc = "done"
  /\ lines = << <<"1", "0", ".", " ", "x">> >>
  /\ ContentBlocks =
       << Paragraph("Normal",
                    <<[text |-> <<"1", "0", ".", " ", "x">>, bold |-> FALSE]>>) >>

(***************************************************************************)
(* Claims about create_word_table (SpecTable)                              *)
(***************************************************************************)
\* the fields of the line between its first and its last '|'-separated field,
\* each trimmed
InnerFields(line) ==
  LET bars == {k \in 1..Len(line) : line[k] = "|"}
      Nth(n) == CHOOSE k \in bars : Cardinality({b \in bars : b < k}) = n - 1
  IN [n \in 1..(Cardinality(bars) - 1) |->
        strip(SubSeq(line, Nth(n) + 1, Nth(n + 1) - 1))]

\* the runs of a cell holding the field: those of its segments, all bold in
\* row 0
FieldRuns(field, header) ==
  LET plain == add_formatted_text(parse_inline_formatting(field))
  IN IF header THEN [k \in 1..Len(plain) |-> [plain[k] EXCEPT !.bold = TRUE]]
     ELSE plain

\* C5: every row of an emitted table has as many columns as row 0; a row with
\* fewer cells is padded with empty cells, a row with more cells is cut to
\* that count, and each cell that is kept stays at its column.
C5_RowsMatchHeader ==
  (pc = "table_done" /\ Len(doc) > Len(Preamble)) =>
     LET t == doc[Len(Preamble) + 1].rows
         src == RowLines(table_lines)
         cols == Len(InnerFields(src[1]))
     IN /\ doc[Len(Preamble) + 1].kind = "table"
        /\ Len(t) = Len(src)
        /\ \A r \in 1..Len(t) :
             /\ Len(t[r]) = cols
             /\ \A c \in 1..cols :
                  IF c <= Len(InnerFields(src[r]))
                  THEN t[r][c] = FieldRuns(InnerFields(src[r])[c], r = 1)
                  ELSE t[r][c] = <<>>

\* a table whose second row has fewer cells than row 0 and whose third row
\* has more has been built
C5_Witness ==
  /\ pc = "table_done"
  /\ table_lines = << <<"|", "a", "|", "b", "|">>,
                      <<"|", "a", "|">>,
                      <<"|", "a", "|", "b", "|", "c", "|">> >>
  /\ Len(doc) = Len(Preamble) + 2
  /\ Len(doc[Len(Preamble) + 1].rows) = 3
  /\ doc[Len(Preamble) + 1].rows[2][2] = <<>>
  /\ Len(doc[Len(Preamble) + 1].rows[3]) = 2

=============================================================================
